---- MODULE Spec2Model ----
(***************************************************************************)
(* The chat relay server of src/server.c: the select() loop of main, the   *)
(* per-connection line framing and protocol dispatch of                    *)
(* process_client_data, and the broadcast loop with send_response; and the  *)
(* chat client of src/client.c: the greeting wait and the nickname          *)
(* handshake of startCommunication, and the session loop of                 *)
(* receiveServerMessages.                                                    *)
(*                                                                         *)
(* Bytes are one-character strings; a byte string is a sequence of them.   *)
(* Indices into `clients` are 1-based here and 0-based in the source.      *)
(***************************************************************************)
EXTENDS Integers, Sequences, FiniteSets, TLC

(* ------------------------------ bounds -------------------------------- *)
\* connections accepted over the whole run
MaxConns == 3
\* longest unterminated tail a peer leaves in the accumulator
MaxPartial == 5
\* bytes delivered over a framing run
MaxStream == 5
\* broadcasts invoked over an ordering run
MaxBcast == 3
\* bytes the client receives while it waits for the greeting
MaxGreeting == 11
\* reads of an active client session
MaxReads == 2
\* lines an active client session has sent before the console stops
MaxSent == 2

(* ------------------------- program constants -------------------------- *)
\* message.size() > 255
MaxMsgLen == 255
\* {1,12} of the nickname pattern
MaxNickLen == 12
\* char buf[1024] of recv_into
RecvBuf == 1024
\* the descriptor socket() returns to create_and_bind: 0, 1, 2 are the stdio streams
listenfd == 3
\* the descriptor socket() returns to createSocketConnection
socketFD == 3
\* sizeof(tempBuffer) - 1, sizeof(buffer) - 1: the most one recv of the client returns
ClientRecvMax == 2047

(* ----------------------------- byte strings --------------------------- *)
LF == "\n"
CR == "\r"

Letters ==
  {"a","b","c","d","e","f","g","h","i","j","k","l","m","n","o","p","q","r","s","t",
   "u","v","w","x","y","z","A","B","C","D","E","F","G","H","I","J","K","L","M","N",
   "O","P","Q","R","S","T","U","V","W","X","Y","Z"}
Digits == {"0","1","2","3","4","5","6","7","8","9"}

\* the character class [A-Za-z0-9_]
NickChars == Letters \cup Digits \cup {"_"}

NICK_ == <<"N","I","C","K"," ">>
MSG_ == <<"M","S","G"," ">>
HELLO == <<"H","E","L","L","O"," ","1",".","0",LF>>
OK == <<"O","K",LF>>
ERR_NICKFMT == <<"E","R","R","O","R",":"," ","I","n","v","a","l","i","d"," ",
                 "n","i","c","k","n","a","m","e"," ","f","o","r","m","a","t",LF>>
ERR_NICKEXP == <<"E","R","R","O","R",":"," ","N","I","C","K"," ",
                 "c","o","m","m","a","n","d"," ","e","x","p","e","c","t","e","d",LF>>
ERR_TOOLONG == <<"E","R","R","O","R",":"," ","M","e","s","s","a","g","e"," ",
                 "t","o","o"," ","l","o","n","g",LF>>
ERR_UNSUPP == <<"E","R","R","O","R",":"," ","U","n","s","u","p","p","o","r","t","e","d"," ",
                "c","o","m","m","a","n","d",LF>>

\* n copies of byte c
Rep(c, n) == [k \in 1..n |-> c]

(* --------------------------- string helpers --------------------------- *)
\* s.substr(from) with a 0-based from <= s.size()
substr(s, from) == SubSeq(s, from + 1, Len(s))

\* mutant of starts_with: only the length is compared
starts_with_len(s, p) == Len(s) >= Len(p)

\* line.rfind(p, 0) == 0 : s starts with p
starts_with(s, p) == Len(s) >= Len(p) /\ SubSeq(s, 1, Len(p)) = p

\* s.find('\n'): the 1-based position of the first LF, 0 for npos
find_nl(s) ==
  LET nl == { k \in 1..Len(s) : s[k] = LF }
  IN IF nl = {} THEN 0 ELSE CHOOSE k \in nl : \A j \in nl : k <= j

RECURSIVE chomp(_)
chomp(s) ==
  IF s # <<>> /\ (s[Len(s)] = LF \/ s[Len(s)] = CR)
    THEN chomp(SubSeq(s, 1, Len(s) - 1))
    ELSE s

\* mutant of is_valid_nick: {0,12} in place of {1,12}
is_valid_nick_empty(s) == Len(s) <= MaxNickLen /\ \A k \in 1..Len(s) : s[k] \in NickChars

\* mutant of is_valid_nick: the character class is not checked
is_valid_nick_anychar(s) == Len(s) >= 1 /\ Len(s) <= MaxNickLen

\* std::regex_match(s, "^[A-Za-z0-9_]{1,12}$")
is_valid_nick(s) ==
  /\ Len(s) >= 1
  /\ Len(s) <= MaxNickLen
  /\ \A k \in 1..Len(s) : s[k] \in NickChars

(* ------------------------------ inputs -------------------------------- *)
\* a nickname of exactly MaxNickLen characters
Nick12 == <<"N","i","c","k","_","0","1","2","3","4","5","6">>

\* What the peers may deliver in one read (each at most RecvBuf bytes). A run draws its
\* reads from one of these families.
ChunksProtocol ==
  { NICK_ \o <<"a","@",LF>> \o NICK_ \o <<"a","l",LF>> \o MSG_ \o <<"y","o",LF>>,
    NICK_ \o <<LF>> \o NICK_ \o Nick12 \o <<"7",LF>> \o NICK_ \o Nick12 \o <<CR,LF>>,
    MSG_ \o <<"h","i",LF>> }

ChunksLength ==
  { NICK_ \o <<"a","l",LF>>,
    MSG_ \o Rep("x", MaxMsgLen) \o <<CR,LF>> \o MSG_ \o Rep("x", MaxMsgLen + 1) \o <<LF>> }

ChunksSplit ==
  { MSG_ \o <<"h">>,
    <<"i",CR,LF>> \o MSG_ \o <<"y","o",LF>> }

ChunksOrder ==
  { MSG_ \o <<"h","i",LF>> \o MSG_ \o <<"y","o",CR,LF>>,
    MSG_ \o <<"o","k",LF>> }

\* the family a run is named after
Family(name) ==
  CASE name = "protocol" -> ChunksProtocol
    [] name = "length" -> ChunksLength
    [] name = "split" -> ChunksSplit
    [] name = "order" -> ChunksOrder
    [] OTHER -> {}

(* ------------------------------- state -------------------------------- *)
VARIABLES
  chunks,     \* environment: the name of the family this run's reads are drawn from
  clients,    \* std::vector<Client> clients
  pc,         \* position in main: "wait" (top of while), "accept", "iter", "done"
  readfds,    \* fd_set readfds as select() left it
  i,          \* index of the client loop
  to_remove,  \* std::vector<int> to_remove
  fdtab,      \* the process's descriptor table: open client descriptor -> connection
  nconn,      \* connections accepted so far; connection ids are 1..nconn
  owner,      \* observer: owner[k] is the connection clients[k] was created for
  eof,        \* observer: connections of the Connection Set whose read returned 0
  last,       \* observer: the lines the last process_client_data call dispatched
  rx,         \* framing runs: the reads so far, one byte string per read
  cl,         \* the client program's messageBuffer and the lines it framed
  running,    \* static bool running
  exit_status,\* what main returned; NoExit while the server process has not returned
  logged,     \* observer: "Server shutting down" has been printed
  first,      \* observer: first[c] is the first byte string sent to connection c
  pass,       \* observer: the Connection Set as the client loop found it, and who it marked
  wire,       \* observer (ordering runs): broadcasts invoked, and those each stream carries
  cpc,        \* the client program's position
  userNickname,      \* string userNickname
  socketDescriptor,  \* int socketDescriptor
  greetingBuffer,    \* string greetingBuffer of startCommunication
  sent,       \* observer: the byte strings the client program has sent, in order
  cexit       \* what the client's main returned; NoExit while it has not

\* the server's lifecycle and its observers
life == <<running, exit_status, logged>>

\* the client program
cvars == <<cpc, userNickname, socketDescriptor, greetingBuffer, sent, cexit>>

vars == <<chunks, clients, pc, readfds, i, to_remove, fdtab, nconn, owner, eof, last,
          rx, cl, running, exit_status, logged, first, pass, wire,
          cpc, userNickname, socketDescriptor, greetingBuffer, sent, cexit>>

\* no exit status: the process has not returned from main
NoExit == -1

\* Client(int f = -1) : fd(f), registered(false)
Client(f) == [fd |-> f, nick |-> <<>>, inbuf |-> <<>>, registered |-> FALSE]

NoCall == [idx |-> 0, conn |-> 0, buf |-> <<>>, lines |-> <<>>]

\* no pass has been observed
NoPass == [members |-> <<>>, marked |-> {}, reads |-> <<>>]

\* nothing has been broadcast
NoWire == [n |-> 0, to |-> <<>>]

\* string messageBuffer of receiveServerMessages, and the lines it has framed
NoClient == [messageBuffer |-> <<>>, lines |-> <<>>]

\* the client program is not part of the run
ClientOff ==
  /\ cpc = "off"
  /\ userNickname = <<>>
  /\ socketDescriptor = -1
  /\ greetingBuffer = <<>>
  /\ sent = <<>>
  /\ cexit = NoExit

\* the server's memory when main is entered, with pc at position p
ServerAt(p) ==
  /\ clients = <<>>
  /\ pc = p
  /\ readfds = {}
  /\ i = 1
  /\ to_remove = <<>>
  /\ fdtab = <<>>
  /\ nconn = 0
  /\ owner = <<>>
  /\ eof = {}
  /\ last = NoCall
  /\ rx = <<>>
  /\ running = TRUE
  /\ exit_status = NoExit
  /\ logged = FALSE
  /\ first = <<>>
  /\ pass = NoPass
  /\ wire = NoWire

\* main is entered with a well-formed bind address
Start ==
  /\ ServerAt("start")
  /\ cl = NoClient
  /\ ClientOff

Init == chunks \in {"protocol", "split"} /\ Start

\* runs whose reads carry chat lines at the length limit
InitLength == chunks = "length" /\ Start

(* ------------------------- descriptor table --------------------------- *)
IsOpen(tab, fd) == fd \in DOMAIN tab

\* close(fd): closing a descriptor that is not open fails with EBADF and changes nothing
close(tab, fd) == [f \in (DOMAIN tab) \ {fd} |-> tab[f]]

\* accept() returns the lowest descriptor that is not open
LowestFree(tab) ==
  CHOOSE f \in (listenfd + 1)..(listenfd + 1 + Cardinality(DOMAIN tab)) :
    /\ f \notin DOMAIN tab
    /\ \A g \in (listenfd + 1)..(f - 1) : g \in DOMAIN tab

\* the descriptors main puts into readfds besides listenfd
SetFds == { clients[k].fd : k \in { j \in 1..Len(clients) : clients[j].fd >= 0 } }

(* ---------------------------- send_response --------------------------- *)
\* One send_response(fd, msg) for the record at index k, on st = [tab, log]: the write
\* fails when fd is not open (EBADF) or when fd is in F, the streams whose peer is
\* gone; a failed write closes fd. log records each write and the connection it reached.
send_response(st, k, fd, msg, F) ==
  IF IsOpen(st.tab, fd) /\ fd \notin F
    THEN [tab |-> st.tab,
          log |-> Append(st.log, [idx |-> k, fd |-> fd, conn |-> st.tab[fd],
                                  msg |-> msg, ok |-> TRUE])]
    ELSE [tab |-> close(st.tab, fd),
          log |-> Append(st.log, [idx |-> k, fd |-> fd, conn |-> 0,
                                  msg |-> msg, ok |-> FALSE])]

\* mutant of broadcast: the sender is not skipped (dst.fd != client.fd is missing)
RECURSIVE broadcast_echo(_, _, _, _, _, _)
broadcast_echo(st, cs, k, srcfd, msg, F) ==
  IF k > Len(cs) THEN st
  ELSE IF cs[k].fd >= 0
    THEN broadcast_echo(send_response(st, k, cs[k].fd, msg, F), cs, k + 1, srcfd, msg, F)
    ELSE broadcast_echo(st, cs, k + 1, srcfd, msg, F)

\* mutant of broadcast: the loop ends at the first write that fails
RECURSIVE broadcast_abort(_, _, _, _, _, _)
broadcast_abort(st, cs, k, srcfd, msg, F) ==
  IF k > Len(cs) \/ (st.log # <<>> /\ ~st.log[Len(st.log)].ok) THEN st
  ELSE IF cs[k].fd >= 0 /\ cs[k].fd # srcfd
    THEN broadcast_abort(send_response(st, k, cs[k].fd, msg, F), cs, k + 1, srcfd, msg, F)
    ELSE broadcast_abort(st, cs, k + 1, srcfd, msg, F)

\* for (auto &dst : clients) if (dst.fd >= 0 && dst.fd != client.fd) send_response(...)
RECURSIVE broadcast(_, _, _, _, _, _)
broadcast(st, cs, k, srcfd, msg, F) ==
  IF k > Len(cs) THEN st
  ELSE IF cs[k].fd >= 0 /\ cs[k].fd # srcfd
    THEN broadcast(send_response(st, k, cs[k].fd, msg, F), cs, k + 1, srcfd, msg, F)
    ELSE broadcast(st, cs, k + 1, srcfd, msg, F)

(* ------------------------- process_client_data ------------------------ *)
\* the line one iteration of the while loop frames: up to the first LF, chomped
framed_line(buf) == chomp(SubSeq(buf, 1, find_nl(buf) - 1))

\* client.inbuf.erase(0, pos + 1)
after_line(buf) == SubSeq(buf, find_nl(buf) + 1, Len(buf))

\* mutant of too_long: >= in place of >
too_long_ge(message) == Len(message) >= MaxMsgLen

\* if (message.size() > 255)
too_long(message) == Len(message) > MaxMsgLen

\* mutant of dispatch: a NICK line is handled as a registration whatever the state
dispatch_renick(cs, k, line, st, F) ==
  LET client == cs[k] IN
  IF starts_with(line, NICK_)
    THEN LET nick == substr(line, 5) IN
      IF is_valid_nick(nick)
        THEN [client |-> [client EXCEPT !.nick = nick, !.registered = TRUE],
              st |-> send_response(st, k, client.fd, OK, F)]
        ELSE [client |-> client, st |-> send_response(st, k, client.fd, ERR_NICKFMT, F)]
    ELSE IF ~client.registered
      THEN [client |-> client, st |-> send_response(st, k, client.fd, ERR_NICKEXP, F)]
      ELSE IF starts_with(line, MSG_)
        THEN LET message == chomp(substr(line, 4)) IN
          IF too_long(message)
            THEN [client |-> client, st |-> send_response(st, k, client.fd, ERR_TOOLONG, F)]
            ELSE [client |-> client,
                  st |-> broadcast(st, cs, 1, client.fd,
                                   MSG_ \o client.nick \o <<" ">> \o message \o <<LF>>, F)]
        ELSE [client |-> client, st |-> send_response(st, k, client.fd, ERR_UNSUPP, F)]

\* the dispatch of one line of clients[k]: the client's new record and st after the writes
dispatch(cs, k, line, st, F) ==
  LET client == cs[k] IN
  IF ~client.registered
    THEN IF starts_with(line, NICK_)
      THEN LET nick == substr(line, 5) IN
        IF is_valid_nick(nick)
          THEN [client |-> [client EXCEPT !.nick = nick, !.registered = TRUE],
                st |-> send_response(st, k, client.fd, OK, F)]
          ELSE [client |-> client, st |-> send_response(st, k, client.fd, ERR_NICKFMT, F)]
      ELSE [client |-> client, st |-> send_response(st, k, client.fd, ERR_NICKEXP, F)]
    ELSE IF starts_with(line, MSG_)
      THEN LET message == chomp(substr(line, 4)) IN
        IF too_long(message)
          THEN [client |-> client, st |-> send_response(st, k, client.fd, ERR_TOOLONG, F)]
          ELSE [client |-> client,
                st |-> broadcast(st, cs, 1, client.fd,
                                 MSG_ \o client.nick \o <<" ">> \o message \o <<LF>>, F)]
      ELSE [client |-> client, st |-> send_response(st, k, client.fd, ERR_UNSUPP, F)]

\* mutant of process_client_data: the complete lines are taken from the back of the
\* accumulator (rfind in place of find)
RECURSIVE process_lifo(_, _, _, _, _, _)
process_lifo(cs, k, tab, F, from, acc) ==
  IF find_nl(cs[k].inbuf) = 0
    THEN [clients |-> cs, tab |-> tab, lines |-> acc]
    ELSE LET buf  == cs[k].inbuf
             nls  == { n \in 1..Len(buf) : buf[n] = LF }
             end  == CHOOSE n \in nls : \A m \in nls : m <= n
             prev == IF nls = {end} THEN 0
                     ELSE CHOOSE n \in nls \ {end} : \A m \in nls \ {end} : m <= n
             line == chomp(SubSeq(buf, prev + 1, end - 1))
             c1   == [cs EXCEPT ![k].inbuf = SubSeq(buf, 1, prev) \o SubSeq(buf, end + 1, Len(buf))]
             r    == dispatch(c1, k, line, [tab |-> tab, log |-> <<>>],
                              IF Len(acc) + 1 >= from THEN F ELSE {})
         IN process_lifo([c1 EXCEPT ![k] = r.client], k, r.st.tab, F, from,
                         Append(acc, [line |-> line,
                                      wasReg |-> cs[k].registered,
                                      nickWas |-> cs[k].nick,
                                      open |-> DOMAIN tab,
                                      writes |-> r.st.log]))

\* mutant of process_client_data: if in place of while, one line per call
process_one_line(cs, k, tab, F, from, acc) ==
  IF find_nl(cs[k].inbuf) = 0
    THEN [clients |-> cs, tab |-> tab, lines |-> acc]
    ELSE LET line == framed_line(cs[k].inbuf)
             c1   == [cs EXCEPT ![k].inbuf = after_line(cs[k].inbuf)]
             r    == dispatch(c1, k, line, [tab |-> tab, log |-> <<>>],
                              IF Len(acc) + 1 >= from THEN F ELSE {})
         IN [clients |-> [c1 EXCEPT ![k] = r.client], tab |-> r.st.tab,
             lines |-> Append(acc, [line |-> line,
                                    wasReg |-> cs[k].registered,
                                    nickWas |-> cs[k].nick,
                                    open |-> DOMAIN tab,
                                    writes |-> r.st.log])]

\* The while loop for clients[k]. F are the streams whose peer goes away during the
\* call, from the line numbered `from` on. acc collects, per line, what an observer sees.
RECURSIVE process_client_data(_, _, _, _, _, _)
process_client_data(cs, k, tab, F, from, acc) ==
  IF find_nl(cs[k].inbuf) = 0
    THEN [clients |-> cs, tab |-> tab, lines |-> acc]
    ELSE LET line == framed_line(cs[k].inbuf)
             c1   == [cs EXCEPT ![k].inbuf = after_line(cs[k].inbuf)]
             r    == dispatch(c1, k, line, [tab |-> tab, log |-> <<>>],
                              IF Len(acc) + 1 >= from THEN F ELSE {})
         IN process_client_data([c1 EXCEPT ![k] = r.client], k, r.st.tab, F, from,
                                Append(acc, [line |-> line,
                                             wasReg |-> cs[k].registered,
                                             nickWas |-> cs[k].nick,
                                             open |-> DOMAIN tab,
                                             writes |-> r.st.log]))

\* mutant of recv_into: the chunk replaces the accumulator
recv_into_replace(c, chunk) == [c EXCEPT !.inbuf = chunk]

\* recv_into: n > 0 bytes appended to the accumulator
recv_into(c, chunk) == [c EXCEPT !.inbuf = @ \o chunk]

\* the bytes after the last LF of buf
RECURSIVE tail_of(_)
tail_of(buf) == IF find_nl(buf) = 0 THEN buf ELSE tail_of(after_line(buf))

\* the writes of a call, in the order they were made
RECURSIVE all_writes(_)
all_writes(lines) == IF lines = <<>> THEN <<>> ELSE Head(lines).writes \o all_writes(Tail(lines))

\* the first byte string each connection was sent, after the writes ws
RECURSIVE note_first(_, _)
note_first(fst, ws) ==
  IF ws = <<>> THEN fst
  ELSE note_first(IF Head(ws).ok /\ Head(ws).conn \notin DOMAIN fst
                    THEN fst @@ (Head(ws).conn :> Head(ws).msg) ELSE fst,
                  Tail(ws))

\* the streams after the writes ws of broadcast number n: a write that succeeds puts
\* the broadcast at the end of the stream's bytes
RECURSIVE stream_append(_, _, _)
stream_append(to, ws, n) ==
  IF ws = <<>> THEN to
  ELSE stream_append(IF Head(ws).ok
                       THEN [c \in DOMAIN to \cup {Head(ws).conn} |->
                               IF c = Head(ws).conn
                                 THEN (IF c \in DOMAIN to THEN to[c] ELSE <<>>) \o <<n>>
                                 ELSE to[c]]
                       ELSE to,
                     Tail(ws), n)

\* the line record is one whose dispatch reached the broadcast loop
reached_broadcast(l) ==
  l.wasReg /\ starts_with(l.line, MSG_) /\ ~too_long(chomp(substr(l.line, 4)))

\* the broadcasts of a call, numbered as they are invoked, and what the streams carry
RECURSIVE record_wire(_, _)
record_wire(w, lines) ==
  IF lines = <<>> THEN w
  ELSE IF reached_broadcast(Head(lines))
    THEN record_wire([n |-> w.n + 1, to |-> stream_append(w.to, Head(lines).writes, w.n + 1)],
                     Tail(lines))
    ELSE record_wire(w, Tail(lines))

\* the descriptors the writes of a call went to
written_fds(lines) ==
  UNION { { lines[a].writes[b].fd : b \in 1..Len(lines[a].writes) } : a \in 1..Len(lines) }

\* the lines of a call that write to fd
lines_writing(lines, fd) ==
  { a \in 1..Len(lines) : \E b \in 1..Len(lines[a].writes) : lines[a].writes[b].fd = fd }

\* The line numbers at which the peers of the streams F may go away during a call: 1,
\* and every later line that writes to a stream of F when a stream of F was written
\* before it and every stream of F is written from it on (any other choice repeats the
\* outcome of one of these).
fail_points(lines, F) ==
  {1} \cup { f \in 2..Len(lines) :
              /\ \E fd \in F : f \in lines_writing(lines, fd)
              /\ \E fd \in F : \E a \in lines_writing(lines, fd) : a < f
              /\ \A fd \in F : \E a \in lines_writing(lines, fd) : a >= f }

(* ------------------------------ main loop ----------------------------- *)
\* mutant of select_ebadf: the failure does not end the loop, which goes on to accept
select_ebadf_ignored(tab, fds) == FALSE

\* select() returns -1 with EBADF when the set names a descriptor that is not open;
\* main then leaves the loop (perror, break)
select_ebadf(tab, fds) == \E fd \in fds : ~IsOpen(tab, fd)

\* while (running): FD_ZERO, FD_SET, select() returns with a non-empty set of ready
\* descriptors
Select ==
  /\ pc = "wait"
  /\ running
  /\ ~select_ebadf(fdtab, SetFds)
  /\ \E ready \in (SUBSET (SetFds \cup (IF nconn < MaxConns THEN {listenfd} ELSE {}))) \ {{}} :
       /\ readfds' = ready
       /\ pc' = IF listenfd \in ready THEN "accept" ELSE "iter"
  /\ i' = 1
  /\ to_remove' = <<>>
  /\ pass' = [members |-> owner, marked |-> {}, reads |-> <<>>]
  /\ UNCHANGED <<cvars, life, first, wire, rx, cl, chunks, clients, fdtab, nconn, owner, eof, last>>

\* select() fails with EBADF because readfds holds a closed descriptor: perror, break,
\* then the cleanup after the loop
SelectFail ==
  /\ pc = "wait"
  /\ running
  /\ select_ebadf(fdtab, SetFds)
  /\ fdtab' = <<>>
  /\ logged' = TRUE
  /\ exit_status' = 0
  /\ pc' = "done"
  /\ UNCHANGED <<cvars, running, first, pass, wire, rx, cl, chunks, clients, readfds, i,
                 to_remove, nconn, owner, eof, last>>

\* mutant of greet: no greeting is sent at accept
greet_none(fst, id) == fst

\* const char *g = "HELLO 1.0\n"; send(cfd, g, strlen(g), 0): the first bytes sent to
\* the new connection; the result of send is not looked at
greet(fst, id) == IF id \in DOMAIN fst THEN fst ELSE fst @@ (id :> HELLO)

\* accept() succeeds: emplace_back(cfd), then the greeting
Accept ==
  /\ pc = "accept"
  /\ LET cfd == LowestFree(fdtab)
         id  == nconn + 1
     IN /\ clients' = Append(clients, Client(cfd))
        /\ owner' = Append(owner, id)
        /\ fdtab' = [f \in DOMAIN fdtab \cup {cfd} |-> IF f = cfd THEN id ELSE fdtab[f]]
        /\ nconn' = id
        /\ first' = greet(first, id)
        /\ pass' = [members |-> Append(owner, id), marked |-> {}, reads |-> <<>>]
  /\ pc' = "iter"
  /\ UNCHANGED <<cvars, life, wire, rx, cl, chunks, readfds, i, to_remove, eof, last>>

\* accept() fails (cfd < 0): nothing is added
AcceptFail ==
  /\ pc = "accept"
  /\ pc' = "iter"
  /\ UNCHANGED <<cvars, life, first, pass, wire, rx, cl, chunks, clients, readfds, i,
                 to_remove, fdtab, nconn, owner, eof, last>>

\* if (client.fd < 0) continue; if (!FD_ISSET(client.fd, &readfds)) continue;
Skip ==
  /\ pc = "iter"
  /\ i <= Len(clients)
  /\ (clients[i].fd < 0 \/ clients[i].fd \notin readfds)
  /\ i' = i + 1
  /\ last' = NoCall
  /\ UNCHANGED <<cvars, life, first, pass, wire, rx, cl, chunks, clients, pc, readfds,
                 to_remove, fdtab, nconn, owner, eof>>

Ready == pc = "iter" /\ i <= Len(clients) /\ clients[i].fd >= 0 /\ clients[i].fd \in readfds

\* mutant of mark_closed: client.fd = -1 is missing
mark_closed_keepfd(cs, k) == cs

\* n == 0 and n < 0: close(client.fd); client.fd = -1; to_remove.push_back(i); continue
mark_closed(cs, k) == [cs EXCEPT ![k].fd = -1]

\* recv returns 0: the peer closed its stream
RecvZero ==
  /\ Ready
  /\ IsOpen(fdtab, clients[i].fd)
  /\ fdtab' = close(fdtab, clients[i].fd)
  /\ clients' = mark_closed(clients, i)
  /\ to_remove' = Append(to_remove, i)
  /\ eof' = eof \cup {owner[i]}
  /\ pass' = [pass EXCEPT !.marked = @ \cup {owner[i]}, !.reads = Append(@, owner[i])]
  /\ i' = i + 1
  /\ last' = NoCall
  /\ UNCHANGED <<cvars, life, first, wire, rx, cl, chunks, pc, readfds, nconn, owner>>

\* recv returns < 0; the only outcome when send_response has closed the descriptor
RecvErr ==
  /\ Ready
  /\ fdtab' = close(fdtab, clients[i].fd)
  /\ clients' = mark_closed(clients, i)
  /\ to_remove' = Append(to_remove, i)
  /\ pass' = [pass EXCEPT !.marked = @ \cup {owner[i]}, !.reads = Append(@, owner[i])]
  /\ i' = i + 1
  /\ last' = NoCall
  /\ UNCHANGED <<cvars, life, first, wire, rx, cl, chunks, pc, readfds, nconn, owner, eof>>

\* recv returns n > 0: recv_into appends, process_client_data runs to its end
RecvData ==
  /\ Ready
  /\ IsOpen(fdtab, clients[i].fd)
  /\ \E chunk \in Family(chunks) :
       /\ Len(chunk) <= RecvBuf
       /\ Len(tail_of(clients[i].inbuf \o chunk)) <= MaxPartial
       /\ \E cs \in { [clients EXCEPT ![i] = recv_into(@, chunk)] } :
          \E r0 \in { process_client_data(cs, i, fdtab, {}, 1, <<>>) } :
          \E F \in SUBSET (written_fds(r0.lines) \cap DOMAIN fdtab) :
          \E from \in fail_points(r0.lines, F) :
          \E r \in { IF F = {} THEN r0 ELSE process_client_data(cs, i, fdtab, F, from, <<>>) } :
            /\ clients' = r.clients
            /\ fdtab' = r.tab
            /\ last' = [idx |-> i, conn |-> owner[i], buf |-> cs[i].inbuf, lines |-> r.lines]
            /\ first' = note_first(first, all_writes(r.lines))
            /\ \E w \in { IF chunks = "order" THEN record_wire(wire, r.lines) ELSE wire } :
                 w.n <= MaxBcast /\ wire' = w
  /\ pass' = [pass EXCEPT !.reads = Append(@, owner[i])]
  /\ i' = i + 1
  /\ UNCHANGED <<cvars, life, rx, cl, chunks, pc, readfds, to_remove, nconn,
                 owner, eof>>

\* erase(begin() + idx) on a sequence
erase(s, idx) == SubSeq(s, 1, idx - 1) \o SubSeq(s, idx + 1, Len(s))

\* std::sort(to_remove.begin(), to_remove.end(), std::greater<int>())
RECURSIVE sort_desc(_)
sort_desc(s) ==
  IF s = <<>> THEN <<>>
  ELSE LET m == CHOOSE k \in 1..Len(s) : \A j \in 1..Len(s) : s[j] <= s[k]
       IN <<s[m]>> \o sort_desc(erase(s, m))

\* the removal loop over the sorted indices, on clients or a sequence parallel to it
RECURSIVE remove_all(_, _)
remove_all(s, idxs) ==
  IF idxs = <<>> THEN s
  ELSE remove_all(IF idxs[1] >= 1 /\ idxs[1] <= Len(s) THEN erase(s, idxs[1]) ELSE s,
                  Tail(idxs))

\* what the removal loop closes: if (clients[idx].fd >= 0) close(clients[idx].fd)
RECURSIVE close_removed(_, _, _)
close_removed(tab, cs, idxs) ==
  IF idxs = <<>> THEN tab
  ELSE close_removed(IF idxs[1] >= 1 /\ idxs[1] <= Len(cs) /\ cs[idxs[1]].fd >= 0
                       THEN close(tab, cs[idxs[1]].fd) ELSE tab,
                     IF idxs[1] >= 1 /\ idxs[1] <= Len(cs) THEN erase(cs, idxs[1]) ELSE cs,
                     Tail(idxs))

\* The client loop is over: the removal loop, then the top of while. The locals of the
\* loop body (to_remove, i) end here, and FD_ZERO clears readfds.
Cleanup ==
  /\ pc = "iter"
  /\ i > Len(clients)
  /\ clients' = remove_all(clients, sort_desc(to_remove))
  /\ owner' = remove_all(owner, sort_desc(to_remove))
  /\ fdtab' = close_removed(fdtab, clients, sort_desc(to_remove))
  /\ eof' = eof \cap { owner'[k] : k \in 1..Len(owner') }
  /\ pc' = "wait"
  /\ readfds' = {}
  /\ i' = 1
  /\ to_remove' = <<>>
  /\ last' = NoCall
  /\ pass' = [pass EXCEPT !.reads = <<>>]
  /\ wire' = [wire EXCEPT !.to = [c \in DOMAIN @ \cap { owner'[k] : k \in 1..Len(owner') } |-> @[c]]]
  /\ UNCHANGED <<cvars, life, first, rx, cl, chunks, nconn>>

\* create_and_bind returns the listening descriptor
Listen ==
  /\ pc = "start"
  /\ pc' = "wait"
  /\ UNCHANGED <<cvars, life, first, pass, wire, rx, cl, chunks, clients, readfds, i,
                 to_remove, fdtab, nconn, owner, eof, last>>

\* create_and_bind returns -1: "Failed to bind", return 1
BindFail ==
  /\ pc = "start"
  /\ exit_status' = 1
  /\ pc' = "done"
  /\ UNCHANGED <<cvars, running, logged, first, pass, wire, rx, cl, chunks, clients,
                 readfds, i, to_remove, fdtab, nconn, owner, eof, last>>

\* SIGINT is delivered to the running server. main installs no handler (handle_sigint
\* is never registered), so the default action ends the process where it stands: the
\* kernel closes its descriptors and its memory is gone; nothing after the loop runs.
\* running, logged and exit_status stay as the process left them.
Sigint ==
  /\ pc \in {"wait", "accept", "iter"}
  /\ pc' = "killed"
  /\ fdtab' = <<>>
  /\ clients' = <<>>
  /\ owner' = <<>>
  /\ readfds' = {}
  /\ i' = 1
  /\ to_remove' = <<>>
  /\ nconn' = 0
  /\ eof' = {}
  /\ last' = NoCall
  /\ first' = <<>>
  /\ pass' = NoPass
  /\ wire' = NoWire
  /\ UNCHANGED <<cvars, life, rx, cl, chunks>>

Next ==
  \/ Listen
  \/ BindFail
  \/ Sigint
  \/ Select
  \/ SelectFail
  \/ Accept
  \/ AcceptFail
  \/ Skip
  \/ RecvZero
  \/ RecvErr
  \/ RecvData
  \/ Cleanup

Spec == Init /\ [][Next]_vars

SpecLength == InitLength /\ [][Next]_vars

(* ----------------------------- ordering runs -------------------------- *)
\* Three connections are Registered (two of them under the same nickname, which
\* nothing forbids) and no further connection arrives; the broadcasts are numbered as
\* they are invoked and each stream's content is kept.
InitOrder ==
  /\ chunks = "order"
  /\ clients = << [Client(listenfd + 1) EXCEPT !.nick = <<"a","l">>, !.registered = TRUE],
                  [Client(listenfd + 2) EXCEPT !.nick = Nick12, !.registered = TRUE],
                  [Client(listenfd + 3) EXCEPT !.nick = <<"a","l">>, !.registered = TRUE] >>
  /\ pc = "wait"
  /\ readfds = {}
  /\ i = 1
  /\ to_remove = <<>>
  /\ fdtab = [f \in (listenfd + 1)..(listenfd + 3) |-> f - listenfd]
  /\ nconn = MaxConns
  /\ owner = <<1, 2, 3>>
  /\ eof = {}
  /\ last = NoCall
  /\ rx = <<>>
  /\ cl = NoClient
  /\ running = TRUE
  /\ exit_status = NoExit
  /\ logged = FALSE
  /\ first = [c \in 1..3 |-> HELLO]
  /\ pass = NoPass
  /\ wire = NoWire
  /\ ClientOff

NextOrder ==
  \/ Select
  \/ SelectFail
  \/ Skip
  \/ RecvZero
  \/ RecvErr
  \/ RecvData
  \/ Cleanup

SpecOrder == InitOrder /\ [][NextOrder]_vars

(* ------------------------------ framing runs -------------------------- *)
\* One connection is fed every byte string over FrameBytes of at most MaxStream bytes,
\* cut into reads in every way; the server's and the client's framers both see it.
FrameBytes == {"a", CR, LF}

FrameChunks == UNION { [1..n -> FrameBytes] : n \in 1..MaxStream }

\* the bytes of a sequence of reads, concatenated
RECURSIVE Flatten(_)
Flatten(reads) == IF reads = <<>> THEN <<>> ELSE Head(reads) \o Flatten(Tail(reads))

\* the while loop of receiveServerMessages: line = messageBuffer.substr(0, newlinePos + 1)
RECURSIVE frame_client(_, _)
frame_client(buf, acc) ==
  IF find_nl(buf) = 0
    THEN [messageBuffer |-> buf, lines |-> acc]
    ELSE frame_client(after_line(buf), Append(acc, SubSeq(buf, 1, find_nl(buf))))

\* messageBuffer.append(buffer, bytesReceived), then the while loop
client_recv(c, chunk) == frame_client(c.messageBuffer \o chunk, c.lines)

InitFrame ==
  /\ chunks = "frame"
  /\ clients = <<Client(listenfd + 1)>>
  /\ pc = "frame"
  /\ readfds = {listenfd + 1}
  /\ i = 1
  /\ to_remove = <<>>
  /\ fdtab = [f \in {listenfd + 1} |-> 1]
  /\ nconn = 1
  /\ owner = <<1>>
  /\ eof = {}
  /\ last = [idx |-> 1, conn |-> 1, buf |-> <<>>, lines |-> <<>>]
  /\ rx = <<>>
  /\ cl = NoClient
  /\ running = TRUE
  /\ exit_status = NoExit
  /\ logged = FALSE
  /\ first = (1 :> HELLO)
  /\ pass = NoPass
  /\ wire = NoWire
  /\ ClientOff

\* one read of n > 0 bytes on each side: recv_into and process_client_data on the
\* server, append and the framing loop on the client
FrameFeed ==
  /\ pc = "frame"
  /\ \E chunk \in FrameChunks :
       /\ Len(chunk) <= RecvBuf
       /\ Len(Flatten(rx)) + Len(chunk) <= MaxStream
       /\ \E r \in { process_client_data([clients EXCEPT ![1] = recv_into(@, chunk)],
                                         1, fdtab, {}, 1, last.lines) } :
            /\ clients' = r.clients
            /\ last' = [last EXCEPT !.lines = r.lines]
       /\ cl' = client_recv(cl, chunk)
       /\ rx' = Append(rx, chunk)
  /\ UNCHANGED <<cvars, life, first, pass, wire, chunks, pc, readfds, i, to_remove, fdtab,
                 nconn, owner, eof>>

SpecFrame == InitFrame /\ [][FrameFeed]_vars

(* ---------------------------- client program -------------------------- *)
\* what the client is given as its nickname argument
Nicknames == { <<"a","l">>, <<"a","@">>, <<>>, Nick12, Nick12 \o <<"7">> }

\* what the server side of the stream may deliver in one read while the client waits
\* for the greeting
GreetingChunks ==
  { <<"H","E","L">>, <<"L","O"," ","1">>, HELLO, <<"E","R","R",LF>> }

\* what it may deliver in one read once the session is active
SessionChunks ==
  { OK \o MSG_ \o <<"a","l"," ","h">>, <<"i",LF>>, ERR_NICKFMT }

\* the lines the console may hand to getline
ConsoleLines == { <<"h","i">>, Rep("x", MaxMsgLen), Rep("x", MaxMsgLen + 1) }

\* the literals the greeting wait looks for
HELLO_1 == <<"H","E","L","L","O"," ","1">>
HELLO_1_0 == <<"H","E","L","L","O"," ","1",".","0">>

\* mutant of contains: any received bytes count
contains_any(s, pat) == s # <<>>

\* s.find(pat) != string::npos
contains(s, pat) ==
  \E k \in 0..(Len(s) - Len(pat)) : SubSeq(s, k + 1, k + Len(pat)) = pat

\* if (nickname.length() > 12) return false; return regex_match(nickname, validPattern)
\* (no statement of the program calls it)
isNicknameValid(nickname) ==
  IF Len(nickname) > MaxNickLen THEN FALSE ELSE is_valid_nick(nickname)

\* "NICK " + userNickname + "\n"
nicknameCommand(nickname) == NICK_ \o nickname \o <<LF>>

\* "MSG " + message + "\n"
messageToSend(message) == MSG_ \o message \o <<LF>>

\* the server is not part of the run
ServerOff == ServerAt("off")

\* main is entered with a well-formed host:port and a nickname argument
InitClient ==
  /\ chunks = "client"
  /\ ServerOff
  /\ cl = NoClient
  /\ cpc = "connecting"
  /\ userNickname \in Nicknames
  /\ socketDescriptor = -1
  /\ greetingBuffer = <<>>
  /\ sent = <<>>
  /\ cexit = NoExit

\* the server's variables, which the client program does not touch
svars == <<chunks, clients, pc, readfds, i, to_remove, fdtab, nconn, owner, eof, last,
           running, exit_status, logged, first, pass, wire>>

\* createSocketConnection returns a descriptor: startCommunication goes on to wait for
\* the greeting
Connect ==
  /\ cpc = "connecting"
  /\ socketDescriptor' = socketFD
  /\ cpc' = "awaiting"
  /\ UNCHANGED <<svars, rx, cl, userNickname, greetingBuffer, sent, cexit>>

\* createSocketConnection returns -1: "ERROR: Failed to connect to server.", return;
\* main then returns 0
ConnectFail ==
  /\ cpc = "connecting"
  /\ cpc' = "connect_failed"
  /\ cexit' = 0
  /\ UNCHANGED <<svars, rx, cl, userNickname, socketDescriptor, greetingBuffer, sent>>

\* the greeting loop reads n > 0 bytes: append, then look for the greeting
GreetRecv ==
  /\ cpc = "awaiting"
  /\ \E chunk \in GreetingChunks :
       /\ Len(chunk) <= ClientRecvMax
       /\ Len(greetingBuffer) + Len(chunk) <= MaxGreeting
       /\ greetingBuffer' = greetingBuffer \o chunk
       /\ cpc' = IF contains(greetingBuffer \o chunk, HELLO_1)
                     \/ contains(greetingBuffer \o chunk, HELLO_1_0)
                  THEN "handshaking" ELSE "awaiting"
  /\ UNCHANGED <<svars, rx, cl, userNickname, socketDescriptor, sent, cexit>>

\* handleError: cerr, gracefulShutdown (close), throw; main catches and returns 1
handleError(end) ==
  /\ cpc' = end
  /\ cexit' = 1

\* the greeting loop ends without the greeting: recv returned <= 0, or more than 5
\* seconds have passed; handleError("No HELLO received from server.")
GreetNone ==
  /\ cpc = "awaiting"
  /\ handleError("no_greeting")
  /\ UNCHANGED <<svars, rx, cl, userNickname, socketDescriptor, greetingBuffer, sent>>

\* sendNicknameToServer: send succeeds, then receiveServerMessages is entered
SendNick ==
  /\ cpc = "handshaking"
  /\ sent' = Append(sent, nicknameCommand(userNickname))
  /\ cpc' = "active"
  /\ UNCHANGED <<svars, rx, cl, userNickname, socketDescriptor, greetingBuffer, cexit>>

\* sendNicknameToServer: send fails
SendNickFail ==
  /\ cpc = "handshaking"
  /\ handleError("send_failed")
  /\ UNCHANGED <<svars, rx, cl, userNickname, socketDescriptor, greetingBuffer, sent>>

\* receiveServerMessages, the socket is readable and recv returns n > 0
SessionRecv ==
  /\ cpc = "active"
  /\ Len(rx) < MaxReads
  /\ \E chunk \in SessionChunks :
       /\ Len(chunk) <= ClientRecvMax
       /\ cl' = client_recv(cl, chunk)
       /\ rx' = Append(rx, chunk)
  /\ UNCHANGED <<svars, cvars>>

\* recv returns 0: "Connection closed by server.", return; main returns 0
SessionClosed ==
  /\ cpc = "active"
  /\ cpc' = "server_closed"
  /\ cexit' = 0
  /\ UNCHANGED <<svars, rx, cl, userNickname, socketDescriptor, greetingBuffer, sent>>

\* recv returns < 0: handleError("Failed to receive data from server.")
SessionRecvFail ==
  /\ cpc = "active"
  /\ handleError("read_error")
  /\ UNCHANGED <<svars, rx, cl, userNickname, socketDescriptor, greetingBuffer, sent>>

\* stdin is readable and getline yields a line: longer than 255 it is reported and
\* dropped, else sendMessage sends it
Console ==
  /\ cpc = "active"
  /\ Len(sent) <= MaxSent
  /\ \E userMessage \in ConsoleLines :
       sent' = IF Len(userMessage) > MaxMsgLen THEN sent
               ELSE Append(sent, messageToSend(userMessage))
  /\ UNCHANGED <<svars, rx, cl, cpc, userNickname, socketDescriptor, greetingBuffer, cexit>>

\* sendMessage: send fails, handleError("Failed to send message.")
ConsoleSendFail ==
  /\ cpc = "active"
  /\ handleError("send_failed")
  /\ UNCHANGED <<svars, rx, cl, userNickname, socketDescriptor, greetingBuffer, sent>>

\* getline fails on end of input: break, return; main returns 0
ConsoleEof ==
  /\ cpc = "active"
  /\ cpc' = "console_eof"
  /\ cexit' = 0
  /\ UNCHANGED <<svars, rx, cl, userNickname, socketDescriptor, greetingBuffer, sent>>

NextClient ==
  \/ Connect
  \/ ConnectFail
  \/ GreetRecv
  \/ GreetNone
  \/ SendNick
  \/ SendNickFail
  \/ SessionRecv
  \/ SessionClosed
  \/ SessionRecvFail
  \/ Console
  \/ ConsoleSendFail
  \/ ConsoleEof

SpecClient == InitClient /\ [][NextClient]_vars

(* ============================== properties ============================ *)
\* the lines of the last process_client_data call, and who made it
Lines == 1..Len(last.lines)
Sender == clients[last.idx]
Records == 1..Len(clients)

\* line is <prefix> followed by anything
HasPrefix(line, prefix) ==
  Len(line) >= Len(prefix) /\ \A n \in 1..Len(prefix) : line[n] = prefix[n]

\* name matches ^[A-Za-z0-9_]{1,12}$
ValidName(name) ==
  Len(name) \in 1..12 /\ \A n \in 1..Len(name) : name[n] \in Letters \cup Digits \cup {"_"}

\* the descriptors open once line a has been dispatched
OpenAfter(a) ==
  IF a < Len(last.lines) THEN last.lines[a + 1].open ELSE DOMAIN fdtab

\* line record l was answered by exactly one write, of msg, to the caller
RepliedWith(l, msg) ==
  /\ Len(l.writes) = 1
  /\ l.writes[1].idx = last.idx
  /\ l.writes[1].fd = Sender.fd
  /\ l.writes[1].msg = msg
  /\ l.writes[1].ok => l.writes[1].conn = last.conn

\* <text> of a line MSG <text>
Text(line) == substr(line, 4)

\* the line record l is a chat line of a registered sender that fits the limit
IsBroadcast(l) == l.wasReg /\ HasPrefix(l.line, MSG_) /\ Len(Text(l.line)) <= MaxMsgLen

\* MSG <sender-nick> <text>\n
Envelope(l) == MSG_ \o Sender.nick \o <<" ">> \o Text(l.line) \o <<LF>>

\* the writes of line record l made for the record at index k
WritesTo(l, k) == { b \in 1..Len(l.writes) : l.writes[b].idx = k }

\* whether the caller is registered once line a has been dispatched
RegAfter(a) ==
  IF a < Len(last.lines) THEN last.lines[a + 1].wasReg ELSE Sender.registered

\* C1: when a registered connection's line MSG <text> with <text> of at most 255 bytes
\* is processed, every other registered connection with an open stream is written
\* exactly one line, MSG <sender-nick> <text>, on its own descriptor (and receives it
\* when the write succeeds); nothing is written to the sender.
C1_FanOut ==
  \A a \in Lines :
    LET l == last.lines[a] IN
    IsBroadcast(l) =>
      /\ \A k \in Records :
           (k # last.idx /\ clients[k].registered /\ clients[k].fd \in l.open) =>
             /\ Cardinality(WritesTo(l, k)) = 1
             /\ \A b \in WritesTo(l, k) :
                  /\ l.writes[b].msg = Envelope(l)
                  /\ l.writes[b].fd = clients[k].fd
                  /\ l.writes[b].ok => l.writes[b].conn = owner[k]
      /\ \A b \in 1..Len(l.writes) :
           /\ l.writes[b].idx # last.idx
           /\ l.writes[b].fd # Sender.fd
           /\ l.writes[b].conn # last.conn

\* a broadcast that reached two other registered connections (N = 3)
C1_Witness ==
  \E a \in Lines :
    /\ IsBroadcast(last.lines[a])
    /\ Cardinality({ k \in Records :
                       /\ k # last.idx
                       /\ clients[k].registered
                       /\ \E b \in WritesTo(last.lines[a], k) : last.lines[a].writes[b].ok })
         >= 2

\* C2: a connection that is still Unregistered never receives a line MSG <nick> <text>.
C2_OnlyRegisteredReceive ==
  \A a \in Lines :
    \A b \in 1..Len(last.lines[a].writes) :
      LET w == last.lines[a].writes[b] IN
      (w.ok /\ HasPrefix(w.msg, MSG_)) => clients[w.idx].registered

\* C3: a connection's read or write failure closes and removes that connection and
\* nothing else: at every wait each connection of the Connection Set has an open
\* stream, so the wait does not fail because of a connection.
C3_FailureIsolated ==
  pc = "wait" =>
    /\ \A k \in Records : clients[k].fd >= 0 /\ IsOpen(fdtab, clients[k].fd)
    /\ ~select_ebadf(fdtab, SetFds)

\* C4: no two live connections of the Connection Set hold the same stream handle, also
\* after a handle was closed and its number given out again by accept.
C4_UniqueHandles ==
  \A j \in Records : \A k \in Records :
    (j # k /\ clients[j].fd >= 0 /\ clients[k].fd >= 0) => clients[j].fd # clients[k].fd

\* two live connections, one of them on a descriptor number an earlier connection held
C4_Witness ==
  /\ \E j \in Records : \E k \in Records :
       j # k /\ clients[j].fd >= 0 /\ clients[k].fd >= 0
  /\ \E k \in Records : clients[k].fd >= 0 /\ owner[k] > clients[k].fd - listenfd

\* a connection is Registered exactly when its nickname is set, and a set nickname
\* matches the pattern
C5_Inv ==
  \A k \in Records :
    /\ clients[k].registered <=> clients[k].nick # <<>>
    /\ clients[k].nick # <<>> => ValidName(clients[k].nick)

\* C5: in every reachable state a connection is Registered iff its nickname is set, a
\* set nickname is non-empty and matches ^[A-Za-z0-9_]{1,12}$, and a connection enters
\* the Connection Set Unregistered with empty nickname and empty buffer.
C5_RegisteredIffNick ==
  /\ []C5_Inv
  /\ [][Len(clients') = Len(clients) + 1 =>
          /\ ~clients'[Len(clients')].registered
          /\ clients'[Len(clients')].nick = <<>>
          /\ clients'[Len(clients')].inbuf = <<>>]_vars

\* a registered connection next to one that was accepted in this pass
C5_Witness ==
  /\ pc = "iter" /\ i = 1 /\ Len(clients) >= 2
  /\ owner[Len(owner)] = nconn
  /\ ~clients[Len(clients)].registered
  /\ \E k \in Records : clients[k].registered /\ Len(clients[k].nick) >= 1

\* C6: a line of an Unregistered connection that is not a valid NICK <name> leaves it
\* Unregistered and is answered ERROR: Invalid nickname format (a NICK line) or
\* ERROR: NICK command expected (any other line); a valid NICK <name>, whatever came
\* before it, registers the connection under <name> and is answered OK.
C6_UnregisteredLines ==
  \A a \in Lines :
    LET l == last.lines[a] IN
    ~l.wasReg =>
      IF HasPrefix(l.line, NICK_) /\ ValidName(substr(l.line, 5))
        THEN /\ RegAfter(a)
             /\ Sender.nick = substr(l.line, 5)
             /\ RepliedWith(l, OK)
        ELSE /\ ~RegAfter(a)
             /\ RepliedWith(l, IF HasPrefix(l.line, NICK_) THEN ERR_NICKFMT ELSE ERR_NICKEXP)

\* a rejected NICK line followed by a NICK line that registers the connection
C6_Witness ==
  \E a \in Lines : \E b \in Lines :
    /\ a < b
    /\ ~last.lines[a].wasReg /\ RepliedWith(last.lines[a], ERR_NICKFMT)
    /\ ~last.lines[b].wasReg /\ RegAfter(b) /\ RepliedWith(last.lines[b], OK)
    /\ last.lines[b].writes[1].ok

\* C7: a Registered connection's MSG <text> with <text> longer than 255 bytes is
\* answered by exactly one ERROR: Message too long, nothing is written to anyone else
\* and the sender stays Registered; a <text> of exactly 255 bytes is broadcast.
C7_LengthLimit ==
  \A a \in Lines :
    LET l == last.lines[a] IN
    (l.wasReg /\ HasPrefix(l.line, MSG_)) =>
      /\ Len(Text(l.line)) > MaxMsgLen => RepliedWith(l, ERR_TOOLONG) /\ RegAfter(a)
      /\ Len(Text(l.line)) = MaxMsgLen =>
           /\ \A b \in 1..Len(l.writes) :
                l.writes[b].msg = Envelope(l) /\ l.writes[b].idx # last.idx
           /\ \A k \in Records :
                (k # last.idx /\ clients[k].fd >= 0) => WritesTo(l, k) # {}

\* one call that broadcast a 255-byte text and rejected a 256-byte text
C7_Witness ==
  \E a \in Lines : \E b \in Lines :
    /\ last.lines[a].wasReg /\ HasPrefix(last.lines[a].line, MSG_)
    /\ Len(Text(last.lines[a].line)) = MaxMsgLen
    /\ \E n \in 1..Len(last.lines[a].writes) : last.lines[a].writes[n].ok
    /\ last.lines[b].wasReg /\ HasPrefix(last.lines[b].line, MSG_)
    /\ Len(Text(last.lines[b].line)) = MaxMsgLen + 1
    /\ RepliedWith(last.lines[b], ERR_TOOLONG)

\* C8: in a broadcast every other connection of the Connection Set is written the line
\* whether or not an earlier write failed; a failed write closes the descriptor it was
\* made on and no other; nothing is written to the sender.
C8_BestEffort ==
  \A a \in Lines :
    LET l == last.lines[a] IN
    IsBroadcast(l) =>
      /\ \A k \in Records :
           (k # last.idx /\ clients[k].fd >= 0) =>
             /\ Cardinality(WritesTo(l, k)) = 1
             /\ \A b \in WritesTo(l, k) :
                  /\ l.writes[b].msg = Envelope(l)
                  /\ (clients[k].fd \in l.open /\ l.writes[b].ok) => l.writes[b].conn = owner[k]
      /\ l.open \ OpenAfter(a)
           = { l.writes[b].fd : b \in { n \in 1..Len(l.writes) : ~l.writes[n].ok } } \cap l.open
      /\ \A b \in 1..Len(l.writes) : l.writes[b].idx # last.idx

\* a broadcast whose write to one recipient failed and to a later recipient succeeded
C8_Witness ==
  \E a \in Lines :
    /\ IsBroadcast(last.lines[a])
    /\ \E b \in 1..Len(last.lines[a].writes) : \E c \in 1..Len(last.lines[a].writes) :
         b < c /\ ~last.lines[a].writes[b].ok /\ last.lines[a].writes[c].ok

\* C9: once the server has read zero bytes from a connection, the connection's entry
\* is marked, no broadcast writes to it, and it is out of the Connection Set when the
\* pass is over.
C9_Disconnect ==
  /\ \A k \in Records : owner[k] \in eof => clients[k].fd = -1
  /\ pc = "wait" => \A k \in Records : owner[k] \notin eof
  /\ \A a \in Lines : \A b \in 1..Len(last.lines[a].writes) :
       /\ owner[last.lines[a].writes[b].idx] \notin eof
       /\ last.lines[a].writes[b].conn \notin eof

\* a broadcast made in the pass that read zero bytes from another connection
C9_Witness ==
  /\ \E k \in Records : owner[k] \in eof /\ k < last.idx
  /\ \E a \in Lines : IsBroadcast(last.lines[a]) /\ Len(last.lines[a].writes) >= 1

\* the lines of a sequence of line records
LinesOf(recs) == [a \in 1..Len(recs) |-> recs[a].line]

\* C10: however a byte sequence is cut into successive reads, the lines framed from the
\* accumulator, in order, and the partial line left in it are those of framing the whole
\* sequence delivered in one read (for the server's framer, which strips trailing LF/CR,
\* and for the client's).
C10_ChunkIndependent ==
  pc = "frame" =>
    LET whole == process_client_data(
                   <<recv_into(Client(listenfd + 1), Flatten(rx))>>, 1, fdtab, {}, 1, <<>>)
    IN /\ LinesOf(last.lines) = LinesOf(whole.lines)
       /\ clients[1].inbuf = whole.clients[1].inbuf
       /\ cl = client_recv(NoClient, Flatten(rx))

\* a line whose CR ends one read and whose LF starts the next
C10_Witness ==
  /\ pc = "frame" /\ Len(rx) = 2
  /\ rx[1] = <<"a", CR>> /\ rx[2] = <<LF, "a">>
  /\ LinesOf(last.lines) = << <<"a">> >>
  /\ clients[1].inbuf = <<"a">>

\* the stop signal has been delivered to the server and has ended it
Signalled == pc = "killed"

\* C11: when the stop signal arrives at the running server, the running flag is
\* cleared, and the server ends with every connection closed and the shutdown logged.
C11_SigintShutdown ==
  Signalled => ~running /\ logged /\ fdtab = <<>>

\* pat occurs in s
Occurs(pat, s) ==
  \E k \in 1..Len(s) : k + Len(pat) - 1 <= Len(s) /\ \A n \in 1..Len(pat) : s[k + n - 1] = pat[n]

\* C12: the client never opens a connection and never sends NICK <nickname> with a
\* nickname that does not match ^[A-Za-z0-9_]{1,12}$.
C12_ClientValidatesNick ==
  (socketDescriptor >= 0 \/ sent # <<>>) => ValidName(userNickname)

\* how a program ended: on an unrecoverable error, or on a normal path
ErrorEnds == {"connect_failed", "no_greeting", "read_error", "send_failed"}
NormalEnds == {"server_closed", "console_eof"}

\* C13: a program that ends on an unrecoverable error (client: failed connect, missing
\* greeting, read error in the session; server: bind failure, failure of the wait that
\* is not an interruption) returns a non-zero status, and a status of zero is returned
\* only on a normal path (client: the server closed the stream, or console end of
\* input; server: a requested shutdown).
C13_ExitStatus ==
  /\ cpc \in ErrorEnds => cexit >= 1
  /\ cexit = 0 => cpc \in NormalEnds
  /\ (pc = "done" /\ running) => exit_status >= 1
  /\ exit_status = 0 => ~running

\* the number of NICK lines among the byte strings the client has sent
NickLines == Cardinality({ n \in 1..Len(sent) : HasPrefix(sent[n], NICK_) })

\* what C15 says of every state
C15_Inv ==
  /\ NickLines <= 1
  /\ sent # <<>> =>
       /\ sent[1] = NICK_ \o userNickname \o <<LF>>
       /\ Occurs(HELLO_1, greetingBuffer)
  /\ (cpc = "no_greeting" \/ ~Occurs(HELLO_1, greetingBuffer)) =>
       sent = <<>> /\ cpc \in {"connecting", "connect_failed", "awaiting", "no_greeting"}
  /\ cpc = "no_greeting" => cexit = 1
  /\ cpc = "active" => NickLines = 1

\* C15: the client sends NICK <nickname> once per session, and only when the bytes it
\* has received contain HELLO 1; when the greeting wait ends without the greeting it
\* fails with the no-greeting error and neither sends NICK nor becomes active; the step
\* that sends NICK makes the session active, with nothing read from the server between.
C15_Handshake ==
  /\ []C15_Inv
  /\ [][(sent = <<>> /\ sent' # <<>>) => (cpc' = "active" /\ cl' = NoClient /\ rx' = <<>>)]_vars

\* an active session whose greeting arrived in two reads and which went on to send a line
C15_Witness ==
  /\ cpc = "active"
  /\ greetingBuffer = HELLO_1
  /\ Len(sent) = 2 /\ HasPrefix(sent[2], MSG_)
  /\ cl.lines # <<>>

\* C14: HELLO 1.0 is the first line the server sends on every accepted connection: it
\* has been sent when the connection enters the Connection Set, before any input of the
\* connection is processed and before any reply or broadcast is written to it.
C14_GreetingFirst ==
  /\ \A k \in Records : owner[k] \in DOMAIN first /\ first[owner[k]] = HELLO
  /\ last.conn # 0 => last.conn \in DOMAIN first /\ first[last.conn] = HELLO
  /\ \A a \in Lines : \A b \in 1..Len(last.lines[a].writes) :
       LET w == last.lines[a].writes[b] IN
       w.ok => w.conn \in DOMAIN first /\ first[w.conn] = HELLO

\* a connection accepted in this pass is written a broadcast in the same pass
C14_Witness ==
  /\ pc = "iter" /\ Len(owner) >= 2 /\ owner[Len(owner)] = nconn
  /\ pass.members = owner /\ nconn \notin { pass.members[k] : k \in 1..(Len(owner) - 1) }
  /\ clients[Len(clients)].inbuf = <<>> /\ ~clients[Len(clients)].registered
  /\ \E a \in Lines : \E b \in 1..Len(last.lines[a].writes) :
       LET w == last.lines[a].writes[b] IN
       w.ok /\ w.conn = nconn /\ HasPrefix(w.msg, MSG_)

\* the members of seq that are not in set, in order
Without(seq, set) == SelectSeq(seq, LAMBDA c : c \notin set)

\* the part of C16 about marking and removal: during a pass the Connection Set keeps its
\* members and positions and exactly the connections whose read returned zero or an
\* error are marked; the pass over, exactly the marked connections have been removed
C16_MarkedRemoved ==
  /\ pc = "iter" =>
       /\ owner = pass.members
       /\ \A k \in Records : owner[k] \in pass.marked <=> clients[k].fd < 0
  /\ pc = "wait" => owner = Without(pass.members, pass.marked)

\* C16: connections whose read returned zero or an error are only marked during the
\* pass, the Connection Set keeping its members and positions; after the pass exactly
\* the marked connections have been removed, so that at the start of each wait no
\* connection whose stream handle is closed is in the Connection Set.
C16_DeferredRemoval ==
  /\ C16_MarkedRemoved
  /\ pc = "wait" => \A k \in Records : IsOpen(fdtab, clients[k].fd)

\* the caller's nickname once line a has been dispatched
NickAfter(a) ==
  IF a < Len(last.lines) THEN last.lines[a + 1].nickWas ELSE Sender.nick

\* what C17 says of the lines of a call
C17_Inv ==
  \A a \in Lines :
    LET l == last.lines[a] IN
    l.wasReg =>
      /\ RegAfter(a)
      /\ NickAfter(a) = l.nickWas
      /\ ~HasPrefix(l.line, MSG_) => RepliedWith(l, ERR_UNSUPP)

\* C17: a Registered connection stays Registered, under the same nickname, for as long
\* as it is in the Connection Set; a line of a Registered connection that is not
\* MSG <text>, a further NICK <name> included, is answered ERROR: Unsupported command
\* and changes neither.
C17_RegisteredStays ==
  /\ []C17_Inv
  /\ [][\A j \in Records : \A k \in 1..Len(clients') :
          (owner'[k] = owner[j] /\ clients[j].registered) =>
            (clients'[k].registered /\ clients'[k].nick = clients[j].nick)]_vars

\* a Registered connection sent a NICK line with a valid name other than its own
C17_Witness ==
  \E a \in Lines :
    LET l == last.lines[a] IN
    /\ l.wasReg /\ HasPrefix(l.line, NICK_) /\ ValidName(substr(l.line, 5))
    /\ substr(l.line, 5) # l.nickWas
    /\ RepliedWith(l, ERR_UNSUPP) /\ l.writes[1].ok

\* the position of the first LF of buf, 0 when it has none
FirstLF(buf) ==
  LET at == { n \in 1..Len(buf) : buf[n] = LF }
  IN IF at = {} THEN 0 ELSE CHOOSE n \in at : \A m \in at : n <= m

\* s without its trailing CR and LF bytes
RECURSIVE Stripped(_)
Stripped(s) ==
  IF s # <<>> /\ s[Len(s)] \in {CR, LF} THEN Stripped(SubSeq(s, 1, Len(s) - 1)) ELSE s

\* the complete lines of buf, in order, and the partial line after the last LF
RECURSIVE Cut(_, _)
Cut(buf, acc) ==
  IF FirstLF(buf) = 0 THEN [lines |-> acc, rest |-> buf]
  ELSE Cut(SubSeq(buf, FirstLF(buf) + 1, Len(buf)),
           Append(acc, Stripped(SubSeq(buf, 1, FirstLF(buf) - 1))))

\* C19: in a pass each connection is read at most once; every complete line of the
\* accumulator after that read is dispatched in the same call, in order, and only the
\* partial line after the last LF stays in the accumulator.
C19_OneReadPerPass ==
  /\ \A a \in 1..Len(pass.reads) : \A b \in 1..Len(pass.reads) :
       a # b => pass.reads[a] # pass.reads[b]
  /\ \A k \in Records : \A n \in 1..Len(clients[k].inbuf) : clients[k].inbuf[n] # LF
  /\ (last.idx # 0 /\ pc = "iter") =>
       LET cut == Cut(last.buf, <<>>)
       IN LinesOf(last.lines) = cut.lines /\ Sender.inbuf = cut.rest

\* one read that completed a partial line and carried a second line
C19_Witness ==
  /\ pc = "iter" /\ last.idx # 0
  /\ chunks = "split"
  /\ LinesOf(last.lines) = << MSG_ \o <<"h","i">>, MSG_ \o <<"y","o">> >>
  /\ Sender.inbuf = <<>>
  /\ Len(pass.reads) >= 2

\* the writes of the last call, in the order they were made
Writes == all_writes(last.lines)

\* <text> of an envelope MSG <nick> <text>\n written for the caller
TextOf(msg) == SubSeq(msg, Len(MSG_) + Len(Sender.nick) + 2, Len(msg) - 1)

\* the place of the line MSG <text> among the complete lines of the read
PlaceOf(text) ==
  LET ls == Cut(last.buf, <<>>).lines
  IN CHOOSE n \in 0..Len(ls) :
       IF \E m \in 1..Len(ls) : ls[m] = MSG_ \o text
         THEN n >= 1 /\ ls[n] = MSG_ \o text /\ \A m \in 1..(n - 1) : ls[m] # MSG_ \o text
         ELSE n = 0

\* what C18 says of every state
C18_Inv ==
  /\ \A c \in DOMAIN wire.to : \A a \in 1..Len(wire.to[c]) : \A b \in 1..Len(wire.to[c]) :
       a < b => wire.to[c][a] < wire.to[c][b]
  /\ \A a \in 1..Len(Writes) : \A b \in 1..Len(Writes) :
       (/\ a < b
        /\ Writes[a].ok /\ Writes[b].ok
        /\ Writes[a].conn = Writes[b].conn
        /\ HasPrefix(Writes[a].msg, MSG_) /\ HasPrefix(Writes[b].msg, MSG_))
       => /\ PlaceOf(TextOf(Writes[a].msg)) >= 1
          /\ PlaceOf(TextOf(Writes[a].msg)) < PlaceOf(TextOf(Writes[b].msg))

\* C18: each recipient's stream carries the broadcasts it was written in the order the
\* broadcasts were invoked, whoever sent them; broadcasts of lines framed from one read
\* reach a recipient in the order of the lines in that read; a stream is only ever
\* appended to.
C18_RecipientOrder ==
  /\ []C18_Inv
  /\ [][\A c \in DOMAIN wire.to \cap DOMAIN wire'.to :
          /\ Len(wire'.to[c]) >= Len(wire.to[c])
          /\ SubSeq(wire'.to[c], 1, Len(wire.to[c])) = wire.to[c]]_vars

\* a recipient holds two broadcasts of one read of one sender and then a third, of
\* another sender who received the first two as well
C18_Witness ==
  /\ Len(last.lines) = 1
  /\ \E c \in DOMAIN wire.to :
       /\ c # last.conn
       /\ wire.to[c] = <<1, 2, 3>>
       /\ last.conn \in DOMAIN wire.to /\ wire.to[last.conn] = <<1, 2>>

\* the nickname of an envelope MSG <nick> <text>: the bytes between MSG and the next space
NameOf(msg) ==
  LET rest == substr(msg, 4)
      sp   == { n \in 1..Len(rest) : rest[n] = " " }
  IN IF sp = {} THEN rest
     ELSE SubSeq(rest, 1, (CHOOSE n \in sp : \A m \in sp : n <= m) - 1)

\* C20: a line of a connection that is Unregistered when the line is processed never
\* causes a write to another connection nor a MSG line to anyone: MSG <text> from it is
\* answered ERROR: NICK command expected only; every envelope MSG <nick> <text> written
\* carries the non-empty, valid nickname its sender had when the line was processed.
C20_NoUnregisteredBroadcast ==
  \A a \in Lines :
    LET l == last.lines[a] IN
    /\ ~l.wasReg =>
         /\ \A b \in 1..Len(l.writes) :
              l.writes[b].idx = last.idx /\ ~HasPrefix(l.writes[b].msg, MSG_)
         /\ HasPrefix(l.line, MSG_) => RepliedWith(l, ERR_NICKEXP)
    /\ \A b \in 1..Len(l.writes) :
         HasPrefix(l.writes[b].msg, MSG_) =>
           /\ l.wasReg
           /\ ValidName(NameOf(l.writes[b].msg))
           /\ NameOf(l.writes[b].msg) = l.nickWas

\* one read carried a rejected NICK, an accepted NICK and a MSG that was broadcast
\* under the accepted name
C20_Witness ==
  /\ Len(last.lines) = 3
  /\ ~last.lines[1].wasReg /\ RepliedWith(last.lines[1], ERR_NICKFMT)
  /\ ~last.lines[2].wasReg /\ last.lines[3].wasReg
  /\ \E b \in 1..Len(last.lines[3].writes) :
       /\ last.lines[3].writes[b].ok
       /\ NameOf(last.lines[3].writes[b].msg) = <<"a","l">>

====
